---- MODULE Spec2Model ----
(***************************************************************************)
(* A model of the encoding half of the zstd-rs crate:                      *)
(*   - encoding/frame_encoder.rs : ZstdLevel, CompressionLevel and         *)
(*     FrameCompressor (new, compress);                                    *)
(*   - huff0/huff0_encoder.rs    : HuffmanTable::build_from_weights and    *)
(*     build_from_counts, distribute_weights, redistribute_weights.        *)
(*                                                                         *)
(* Byte sequences are held run-length coded (a sequence of runs            *)
(* [byte, n], n >= 1), so that inputs longer than MAX_BLOCK_SIZE fit in a  *)
(* state; every operation on them (length, slicing, concatenation, the     *)
(* all-bytes-equal test) is computed on the bytes the runs stand for.      *)
(*                                                                         *)
(* Five specifications share the module:                                   *)
(*   Spec      one FrameCompressor, from construction through compress();  *)
(*   LevelSpec the level conversions (TryFrom<int>, normalize, new);       *)
(*   HuffSpec  HuffmanTable::build_from_weights on bounded weight arrays;  *)
(*   CountsSpec HuffmanTable::build_from_counts on bounded count arrays;   *)
(*   WeightSpec distribute_weights and redistribute_weights for every      *)
(*             amount the former accepts.                                  *)
(***************************************************************************)
EXTENDS Integers, Sequences, FiniteSets

VARIABLES
    \* ---- FrameCompressor (Spec) ----
    uncompressed_data,   \* the bytes of the source R (run-length coded)
    compressed_data,     \* the sink W: the chunks written so far, in order
    compression_level,   \* FrameCompressor.compression_level
    output,              \* compress(): the local buffer `output`
    index,               \* compress(): the loop variable `index`
    matcher,             \* compress(): what the MatchGenerator has been fed
    blocks,              \* compress(): the loops' locals, one entry per iteration
    pc,                  \* position of compress()
    \* ---- level conversions (LevelSpec) ----
    lv_n,                \* the integer handed to ZstdLevel::try_from
    lv_result,           \* its Result
    lv_level,            \* the CompressionLevel the caller builds
    lv_stored,           \* the level FrameCompressor::new stores
    lv_pc,
    \* ---- HuffmanTable (HuffSpec, CountsSpec) ----
    counts,              \* the argument of build_from_counts
    weights,             \* the argument of build_from_weights
    table,               \* HuffmanTable.codes
    hpc,
    \* ---- distribute_weights / redistribute_weights (WeightSpec) ----
    amount,              \* the argument of distribute_weights
    max_weight,          \* the ceiling handed to redistribute_weights
    wts,                 \* the weight sequence
    wpc

frameVars == <<uncompressed_data, compressed_data, compression_level, output,
               index, matcher, blocks, pc>>
levelVars == <<lv_n, lv_result, lv_level, lv_stored, lv_pc>>
huffVars  == <<counts, weights, table, hpc>>
weightVars == <<amount, max_weight, wts, wpc>>
vars == <<frameVars, levelVars, huffVars, weightVars>>

(***************************************************************************)
(* Bounds of the model.                                                    *)
(***************************************************************************)
MaxRuns == 3          \* an input is at most this many runs of equal bytes
MaxIntInput == 260    \* integers tried by TryFrom: -MaxIntInput..MaxIntInput
MaxSyms == 5          \* length of a weight array
MaxWeight == 3        \* largest weight in a weight array
MaxCountSyms == 4     \* length of an exhaustively enumerated counts array
MaxCount == 3         \* largest count in such an array

(***************************************************************************)
(* Byte sequences, run-length coded.                                       *)
(***************************************************************************)
Run(b, n) == [byte |-> b, n |-> n]

RECURSIVE ByteLen(_)
ByteLen(runs) ==
    IF runs = <<>> THEN 0 ELSE Head(runs).n + ByteLen(Tail(runs))

RECURSIVE Drop(_, _)
Drop(runs, k) ==
    IF k = 0 \/ runs = <<>> THEN runs
    ELSE IF Head(runs).n <= k THEN Drop(Tail(runs), k - Head(runs).n)
    ELSE <<Run(Head(runs).byte, Head(runs).n - k)>> \o Tail(runs)

RECURSIVE Take(_, _)
Take(runs, k) ==
    IF k = 0 \/ runs = <<>> THEN <<>>
    ELSE IF Head(runs).n <= k
         THEN <<Head(runs)>> \o Take(Tail(runs), k - Head(runs).n)
    ELSE <<Run(Head(runs).byte, k)>>

\* A variant of Slice that forgets the offset.
SliceFromStart(runs, from, n) == Take(runs, n)

\* &data[from..(from + n)]
Slice(runs, from, n) == Take(Drop(runs, from), n)

\* The canonical form of a byte sequence: adjacent runs of one byte merged.
RECURSIVE Norm(_)
Norm(runs) ==
    IF Len(runs) <= 1 THEN runs
    ELSE LET r == Norm(Tail(runs)) IN
         IF Head(runs).byte = Head(r).byte
         THEN <<Run(Head(r).byte, Head(runs).n + Head(r).n)>> \o Tail(r)
         ELSE <<Head(runs)>> \o r

\* uncompressed.iter().all(|x| uncompressed[0].eq(x)), on a non-empty slice
AllEqualFirst(runs) ==
    \A i \in 1..Len(runs) : runs[i].byte = runs[1].byte

(***************************************************************************)
(* ZstdLevel and CompressionLevel.                                         *)
(***************************************************************************)
Uncompressed == <<"Uncompressed">>
Fastest == <<"Fastest">>
Default == <<"Default">>
Better == <<"Better">>
Best == <<"Best">>
Other(zl) == <<"Other", zl>>

NamedLevels == {Uncompressed, Fastest, Default, Better, Best}

Ok(v) == <<"Ok", v>>
Err == <<"Err", "TryFromIntError">>

\* let val: u8 = val.try_into()?
U8TryFrom(n) == IF n >= 0 /\ n <= 255 THEN Ok(n) ELSE Err

\* A variant of ZstdLevel_try_from that rejects what is above 22.
ZstdLevel_try_from_rejecting(n) ==
    IF U8TryFrom(n) = Err THEN Err
    ELSE IF n <= 22 THEN Ok(n)
    ELSE Err

\* impl TryFrom<$t> for ZstdLevel. The else branch, 0u8.try_into(), has the
\* type Result<ZstdLevel, TryFromIntError>: it is ZstdLevel::try_from(0u8),
\* which is Ok(ZstdLevel(0)).
ZstdLevel_try_from(n) ==
    IF U8TryFrom(n) = Err THEN Err
    ELSE IF n <= 22 THEN Ok(n)
    ELSE Ok(0)

\* A variant of CompressionLevel_from that keeps 11 numeric.
CompressionLevel_from_no_best(zl) ==
    CASE zl = 0 -> Uncompressed
      [] zl = 1 -> Fastest
      [] zl = 3 -> Default
      [] zl = 7 -> Better
      [] OTHER -> Other(zl)

\* impl From<ZstdLevel> for CompressionLevel
CompressionLevel_from(zl) ==
    CASE zl = 0 -> Uncompressed
      [] zl = 1 -> Fastest
      [] zl = 3 -> Default
      [] zl = 7 -> Better
      [] zl = 11 -> Best
      [] OTHER -> Other(zl)

\* CompressionLevel::normalize_mut / normalize
normalize(level) ==
    IF level[1] = "Other" THEN CompressionLevel_from(level[2]) ELSE level

(***************************************************************************)
(* The wire format, as the chunks the serializers append to a buffer.  The *)
(* serializers themselves (frame_header, block_header, blocks) lie outside *)
(* the two files; their contracts are those of the format description.     *)
(***************************************************************************)
MAX_BLOCK_SIZE == 128 * 1024 - 20

\* FrameHeader::serialize: the magic number, then the header's fields.
FrameHeader_serialize(h) ==
    <<[k |-> "MAGIC_NUM"], [k |-> "FrameHeader", fields |-> h]>>

\* BlockHeader::serialize
BlockHeader_serialize(h) ==
    <<[k |-> "BlockHeader", last_block |-> h.last_block,
       block_type |-> h.block_type, block_size |-> h.block_size]>>

\* compress_raw_block(data, output): the bytes, verbatim
compress_raw_block(data) == <<[k |-> "Bytes", data |-> data]>>

\* The lengths compress_block may leave in `compressed` for a block of
\* block_size bytes: the serializer is not constrained by the two files, so
\* the lengths around the two thresholds that matter are all taken.
CompressedLens(block_size) ==
    {1, block_size - 1, block_size, block_size + 1,
     MAX_BLOCK_SIZE - 1, MAX_BLOCK_SIZE, MAX_BLOCK_SIZE + 1}

\* compress_block(&mut matcher, uncompressed, &mut compressed): an opaque
\* payload of clen bytes that stands for the block `uncompressed`.
compress_block(uncompressed, clen) ==
    <<[k |-> "Compressed", len |-> clen, of |-> uncompressed]>>

(***************************************************************************)
(* FrameCompressor                                                         *)
(***************************************************************************)
Bytes == {0, 1}
RunLens == {1, MAX_BLOCK_SIZE - 1, MAX_BLOCK_SIZE, MAX_BLOCK_SIZE + 1}

Inputs ==
    UNION {[1..k -> {Run(b, n) : b \in Bytes, n \in RunLens}] : k \in 0..MaxRuns}

Levels == NamedLevels \cup {Other(zl) : zl \in 0..22}

\* FrameCompressor::new
new(data, sink, level) ==
    [uncompressed_data |-> data,
     compressed_data |-> sink,
     compression_level |-> normalize(level)]

FrameInit ==
    \E data \in Inputs, level \in Levels :
        LET c == new(data, <<>>, level) IN
        /\ uncompressed_data = c.uncompressed_data
        /\ compressed_data = c.compressed_data
        /\ compression_level = c.compression_level
        /\ output = <<>>
        /\ index = 0
        /\ matcher = <<>>
        /\ blocks = <<>>
        /\ pc = "new"

FrameIdle ==
    /\ uncompressed_data = <<>>
    /\ compressed_data = <<>>
    /\ compression_level = Uncompressed
    /\ output = <<>>
    /\ index = 0
    /\ matcher = <<>>
    /\ blocks = <<>>
    /\ pc = "idle"

DataLen == ByteLen(uncompressed_data)

\* A variant of LastBlock with a strict comparison.
LastBlockStrict(i, len) == i + MAX_BLOCK_SIZE > len

\* let last_block = index + MAX_BLOCK_SIZE >= uncompressed_data.len()
LastBlock(i, len) == i + MAX_BLOCK_SIZE >= len

\* let block_size = if last_block { len - index } else { MAX_BLOCK_SIZE }
BlockSize(i, len) == IF LastBlock(i, len) THEN len - i ELSE MAX_BLOCK_SIZE

\* A variant of Start without the special handling of an empty input.
StartNoEmptyBlock ==
    /\ pc = "new"
    /\ output' =
         FrameHeader_serialize([frame_content_size |-> "None",
                                single_segment |-> FALSE,
                                content_checksum |-> FALSE,
                                dictionary_id |-> "None",
                                window_size |-> 256 * 1024])
    /\ index' = 0
    /\ matcher' = <<>>
    /\ pc' = "match"
    /\ UNCHANGED <<uncompressed_data, compressed_data, compression_level, blocks>>

\* compress(), up to the match on the level: the frame header goes to the
\* local buffer, the input is read, and an empty input gets its block header.
Start ==
    /\ pc = "new"
    /\ output' =
         FrameHeader_serialize([frame_content_size |-> "None",
                                single_segment |-> FALSE,
                                content_checksum |-> FALSE,
                                dictionary_id |-> "None",
                                window_size |-> 256 * 1024])
         \o (IF uncompressed_data = <<>>
             THEN BlockHeader_serialize([last_block |-> TRUE,
                                         block_type |-> "Raw",
                                         block_size |-> 0])
             ELSE <<>>)
    /\ index' = 0
    /\ matcher' = <<>>
    /\ pc' = "match"
    /\ UNCHANGED <<uncompressed_data, compressed_data, compression_level, blocks>>

\* One iteration of the loop of the Uncompressed arm.
UncompressedBlock ==
    /\ pc = "match"
    /\ compression_level = Uncompressed
    /\ index < DataLen
    /\ LET last_block == LastBlock(index, DataLen)
           block_size == BlockSize(index, DataLen)
           header == [last_block |-> last_block, block_type |-> "Raw",
                      block_size |-> block_size]
       IN /\ output' = output \o BlockHeader_serialize(header)
                       \o compress_raw_block(Slice(uncompressed_data, index, block_size))
          /\ blocks' = Append(blocks, [index |-> index, len |-> block_size,
                                       compressed_len |-> 0,
                                       header |-> header])
          /\ index' = index + block_size
    /\ UNCHANGED <<uncompressed_data, compressed_data, compression_level, matcher, pc>>

\* A variant of FastestRLE that hands the block to compress_block.
FastestRLEMatched(uncompressed, last_block) ==
    LET header == [last_block |-> last_block, block_type |-> "RLE",
                   block_size |-> ByteLen(uncompressed)]
    IN [fed |-> [op |-> "compress_block", data |-> uncompressed],
        compressed_len |-> 0,
        header |-> header,
        out |-> BlockHeader_serialize(header) \o <<[k |-> "Bytes",
                    data |-> <<Run(uncompressed[1].byte, 1)>>]>>]

\* The three blocks an iteration of the Fastest arm can emit: what the
\* matcher is fed, compressed.len() (0 where `compressed` is not built),
\* the header and the bytes appended to `output`.
FastestRLE(uncompressed, last_block) ==
    LET header == [last_block |-> last_block, block_type |-> "RLE",
                   block_size |-> ByteLen(uncompressed)]
    IN [fed |-> [op |-> "add_data_no_matching", data |-> uncompressed],
        compressed_len |-> 0,
        header |-> header,
        out |-> BlockHeader_serialize(header) \o <<[k |-> "Bytes",
                    data |-> <<Run(uncompressed[1].byte, 1)>>]>>]

FastestRaw(uncompressed, last_block, block_size, clen) ==
    LET header == [last_block |-> last_block, block_type |-> "Raw",
                   block_size |-> block_size]
    IN [fed |-> [op |-> "compress_block", data |-> uncompressed],
        compressed_len |-> clen,
        header |-> header,
        out |-> BlockHeader_serialize(header) \o compress_raw_block(uncompressed)]

FastestCompressed(uncompressed, last_block, clen) ==
    LET header == [last_block |-> last_block, block_type |-> "Compressed",
                   block_size |-> clen]
    IN [fed |-> [op |-> "compress_block", data |-> uncompressed],
        compressed_len |-> clen,
        header |-> header,
        out |-> BlockHeader_serialize(header) \o compress_block(uncompressed, clen)]

\* A variant of RawFallback with a strict comparison.
RawFallbackStrict(clen, block_size) == clen > MAX_BLOCK_SIZE

\* if compressed.len() >= MAX_BLOCK_SIZE { Raw } else { Compressed }
RawFallback(clen, block_size) == clen >= MAX_BLOCK_SIZE

\* The block an iteration of the Fastest arm emits, compress_block having
\* left clen bytes in `compressed`.
FastestChoice(uncompressed, last_block, block_size, clen) ==
    IF AllEqualFirst(uncompressed)
    THEN FastestRLE(uncompressed, last_block)
    ELSE IF RawFallback(clen, block_size)
         THEN FastestRaw(uncompressed, last_block, block_size, clen)
         ELSE FastestCompressed(uncompressed, last_block, clen)

\* One iteration of the loop of the Fastest arm: the block is emitted, the
\* buffer is written to the sink and cleared.
FastestBlock ==
    /\ pc = "match"
    /\ compression_level = Fastest
    /\ index < DataLen
    /\ LET last_block == LastBlock(index, DataLen)
           block_size == BlockSize(index, DataLen)
           uncompressed == Slice(uncompressed_data, index, block_size)
       IN \E clen \in CompressedLens(block_size) :
            LET b == FastestChoice(uncompressed, last_block, block_size, clen) IN
            /\ clen >= 1
            /\ matcher' = Append(matcher, b.fed)
            /\ blocks' = Append(blocks, [index |-> index, len |-> block_size,
                                         compressed_len |-> b.compressed_len,
                                         header |-> b.header])
            /\ compressed_data' = compressed_data \o output \o b.out
            /\ output' = <<>>
            /\ index' = index + block_size
    /\ UNCHANGED <<uncompressed_data, compression_level, pc>>

\* A variant of Unimplemented that goes on to the final write_all.
UnimplementedFallsThrough ==
    /\ pc = "match"
    /\ compression_level \notin {Uncompressed, Fastest}
    /\ pc' = "panicked"
    /\ compressed_data' = compressed_data \o output
    /\ UNCHANGED <<uncompressed_data, compression_level, output, index,
                   matcher, blocks>>

\* The arms Default, Better, Best and Other(level): unimplemented!()
Unimplemented ==
    /\ pc = "match"
    /\ compression_level \notin {Uncompressed, Fastest}
    /\ pc' = "panicked"
    /\ UNCHANGED <<uncompressed_data, compressed_data, compression_level,
                   output, index, matcher, blocks>>

\* After the loop of an implemented arm: self.compressed_data.write_all(output)
Finish ==
    /\ pc = "match"
    /\ compression_level \in {Uncompressed, Fastest}
    /\ index >= DataLen
    /\ compressed_data' = compressed_data \o output
    /\ pc' = "done"
    /\ UNCHANGED <<uncompressed_data, compression_level, output, index,
                   matcher, blocks>>

(***************************************************************************)
(* The level conversions, as a caller uses them: an integer is converted   *)
(* to a ZstdLevel, wrapped in CompressionLevel::Other (or a named preset   *)
(* is taken), handed to FrameCompressor::new, and normalized once more.    *)
(***************************************************************************)
IntInputs == (-MaxIntInput)..MaxIntInput

None == <<"None">>

LevelInit ==
    /\ lv_n = 0
    /\ lv_result = None
    /\ lv_level = None
    /\ lv_stored = None
    /\ lv_pc = "start"

LevelIdle ==
    /\ lv_n = 0
    /\ lv_result = None
    /\ lv_level = None
    /\ lv_stored = None
    /\ lv_pc = "idle"

\* ZstdLevel::try_from(n)
TryFromInt ==
    /\ lv_pc = "start"
    /\ \E n \in IntInputs :
        /\ lv_n' = n
        /\ lv_result' = ZstdLevel_try_from(n)
    /\ lv_pc' = "converted"
    /\ UNCHANGED <<lv_level, lv_stored>>

\* CompressionLevel::Other(zl), zl the ZstdLevel of an Ok result
OtherLevel ==
    /\ lv_pc = "converted"
    /\ lv_result[1] = "Ok"
    /\ lv_level' = Other(lv_result[2])
    /\ lv_pc' = "level"
    /\ UNCHANGED <<lv_n, lv_result, lv_stored>>

\* One of the named presets
NamedLevel ==
    /\ lv_pc = "start"
    /\ \E l \in NamedLevels : lv_level' = l
    /\ lv_pc' = "level"
    /\ UNCHANGED <<lv_n, lv_result, lv_stored>>

\* FrameCompressor::new(.., .., level)
NewCompressor ==
    /\ lv_pc = "level"
    /\ lv_stored' = new(<<>>, <<>>, lv_level).compression_level
    /\ lv_pc' = "constructed"
    /\ UNCHANGED <<lv_n, lv_result, lv_level>>

\* compression_level.normalize()
Normalize ==
    /\ lv_pc = "constructed"
    /\ lv_stored' = normalize(lv_stored)
    /\ lv_pc' = "normalized"
    /\ UNCHANGED <<lv_n, lv_result, lv_level>>

(***************************************************************************)
(* HuffmanTable::build_from_weights                                        *)
(***************************************************************************)
WeightArrays == UNION {[1..k -> 0..MaxWeight] : k \in 0..MaxSyms}

\* The entries pushed to `sorted`: the symbols of weight > 0 from index i on,
\* in symbol order.
PresentEntries(w, i) ==
    SelectSeq([k \in 1..(Len(w) - i + 1) |->
                  [symbol |-> (i + k - 2) % 256, weight |-> w[i + k - 1]]],
              LAMBDA e : e.weight > 0)

\* The comparator of sorted.sort_by: by weight, then by symbol.
EntryLess(left, right) ==
    \/ left.weight < right.weight
    \/ left.weight = right.weight /\ left.symbol < right.symbol

\* The merge of two sorted runs, by halving the left run: the entries of the
\* right run that are strictly less than the middle entry of the left run go
\* before it, the others after it, which keeps the sort stable.
RECURSIVE MergeEntries(_, _)
MergeEntries(l, r) ==
    IF l = <<>> THEN r
    ELSE IF r = <<>> THEN l
    ELSE LET m == (Len(l) + 1) \div 2
             c == Cardinality({j \in 1..Len(r) : EntryLess(r[j], l[m])})
         IN MergeEntries(SubSeq(l, 1, m - 1), SubSeq(r, 1, c))
            \o <<l[m]>>
            \o MergeEntries(SubSeq(l, m + 1, Len(l)), SubSeq(r, c + 1, Len(r)))

\* sorted.sort_by(..): a stable merge sort
RECURSIVE SortEntries(_)
SortEntries(s) ==
    IF Len(s) <= 1 THEN s
    ELSE LET half == Len(s) \div 2
         IN MergeEntries(SortEntries(SubSeq(s, 1, half)),
                         SortEntries(SubSeq(s, half + 1, Len(s))))

\* sorted.iter().map(|e| 1 << (e.weight - 1)).sum::<usize>()
\* (summed by halves)
RECURSIVE WeightSum(_)
WeightSum(sorted) ==
    IF sorted = <<>> THEN 0
    ELSE IF Len(sorted) = 1 THEN 2^(sorted[1].weight - 1)
    ELSE LET half == Len(sorted) \div 2
         IN WeightSum(SubSeq(sorted, 1, half))
            + WeightSum(SubSeq(sorted, half + 1, Len(sorted)))

\* usize::BITS - x.leading_zeros(): the number of bits of x
RECURSIVE BitWidth(_)
BitWidth(x) == IF x <= 0 THEN 0 ELSE 1 + BitWidth(x \div 2)

\* highest_bit_set(x): assert!(x > 0) panics on 0, in every build.
highest_bit_set(x) == [panic |-> x <= 0, value |-> BitWidth(x)]

\* usize::is_power_of_two
is_power_of_two(x) == x > 0 /\ 2^(BitWidth(x) - 1) = x

\* current_num_bits = max_num_bits - entry.weight + 1, evaluated left to
\* right in usize. When max_num_bits < weight the subtraction overflows: a
\* build with overflow checks (debug) panics there, one without (release)
\* wraps. The wrapped value is 2^64 + (max_num_bits - weight + 1) below
\* 2^64, and 0 when the difference is -1; only its low 8 bits are ever used
\* (the `as u8` of the store), and those are what `value` holds then.
NumBits(max_num_bits, weight) ==
    [overflow |-> max_num_bits < weight,
     value |-> IF max_num_bits >= weight
               THEN max_num_bits - weight + 1
               ELSE (max_num_bits - weight + 1) % 256]

\* start_value += count; start_value /= 2: one halving per run of equal
\* weights, whatever the distance to the previous weight.
NextStartValue(start_value, count) == (start_value + count) \div 2

\* The loop over `sorted` that fills table.codes, one run of equal weights
\* per step (`sorted` is ordered by weight, so the entries of one weight are
\* adjacent and `count` is the length of their run). At the first entry i
\* of a run current_value is start_value and start_value is advanced; every
\* entry of the run stores (current_value as u32, current_num_bits as u8)
\* and increments current_value. A codeword is below the number of symbols,
\* far from 2^32, so the first cast changes nothing. acc.codes is the table
\* so far, as the build without overflow checks fills it; acc.overflow says
\* that the build with overflow checks has panicked on the way.
RECURSIVE AssignCodes(_, _, _, _, _)
AssignCodes(sorted, i, start_value, acc, max_num_bits) ==
    IF i > Len(sorted) THEN acc
    ELSE LET entry == sorted[i]
             codes == acc.codes
             count == Cardinality({j \in 1..Len(sorted) :
                                     sorted[j].weight = entry.weight})
             current_num_bits == NumBits(max_num_bits, entry.weight)
             run == i..(i + count - 1)
             Last(slot) == CHOOSE j \in run :
                             /\ sorted[j].symbol + 1 = slot
                             /\ \A k \in run : sorted[k].symbol + 1 = slot => k <= j
             codes1 == [slot \in 1..Len(codes) |->
                          IF \E j \in run : sorted[j].symbol + 1 = slot
                          THEN <<start_value + (Last(slot) - i),
                                 current_num_bits.value % 256>>
                          ELSE codes[slot]]
         IN AssignCodes(sorted, i + count,
                        NextStartValue(start_value, count),
                        [overflow |-> acc.overflow \/ current_num_bits.overflow,
                         codes |-> codes1],
                        max_num_bits)

\* build_from_weights(weights). panic: the internal-error panic (or the
\* assertion of highest_bit_set, which a weight_sum that passed the check
\* cannot fail); every build takes it. overflow: the build with overflow
\* checks panics in the codeword loop, and codes is the table the build
\* without them returns. Neither: codes is the table of every build.
build_from_weights(w) ==
    LET sorted == SortEntries(PresentEntries(w, 1))
        weight_sum == WeightSum(sorted)
        highest == highest_bit_set(weight_sum)
        max_num_bits == highest.value - 1
        assigned == AssignCodes(sorted, 1, 0,
                                [overflow |-> FALSE,
                                 codes |-> [s \in 1..Len(w) |-> <<0, 0>>]],
                                max_num_bits)
    IN IF ~is_power_of_two(weight_sum) \/ highest.panic
       THEN [panic |-> TRUE, overflow |-> FALSE, codes |-> <<>>]
       ELSE [panic |-> FALSE, overflow |-> assigned.overflow,
             codes |-> assigned.codes]

\* What a call of build_from_weights can end in: "panicked" (the internal
\* error), "overflowed" (the arithmetic panic of a build with overflow
\* checks) or "built"; which build runs is not the program's choice.
Outcomes(t) ==
    IF t.panic THEN {"panicked"}
    ELSE IF t.overflow THEN {"overflowed", "built"}
    ELSE {"built"}

HuffInit ==
    /\ counts = <<>>
    /\ weights \in WeightArrays
    /\ table = <<>>
    /\ hpc = "input"

HuffIdle ==
    /\ counts = <<>>
    /\ weights = <<>>
    /\ table = <<>>
    /\ hpc = "idle"

\* HuffmanTable::build_from_weights(&weights)
BuildFromWeights ==
    /\ hpc = "input"
    /\ LET t == build_from_weights(weights) IN
         /\ hpc' \in Outcomes(t)
         /\ table' = IF hpc' = "built" THEN t.codes ELSE <<>>
    /\ UNCHANGED <<counts, weights>>

(***************************************************************************)
(* distribute_weights and redistribute_weights                             *)
(***************************************************************************)
\* usize::ilog2, on the x >= 1 it is called with (a length of at least 2)
ilog2(x) == BitWidth(x) - 1

\* A variant of ShortfallTarget that keeps the old target weight.
ShortfallTargetKept(shortfall, weight_counter, target_weight) == target_weight

\* if add_new > available_space { target_weight = weight_counter; .. }
ShortfallTarget(shortfall, weight_counter, target_weight) ==
    IF shortfall THEN weight_counter ELSE target_weight

\* The while loop of distribute_weights.
RECURSIVE DistributeLoop(_, _, _, _)
DistributeLoop(w, target_weight, weight_counter, amt) ==
    IF Len(w) >= amt THEN w
    ELSE LET shifted == 2^(weight_counter - target_weight)
             available_space == amt - Len(w)
             shortfall == shifted > available_space
             target == ShortfallTarget(shortfall, weight_counter, target_weight)
             add_new == IF shortfall THEN 1 ELSE shifted
         IN DistributeLoop(w \o [i \in 1..add_new |-> target],
                           target, weight_counter + 1, amt)

\* distribute_weights(amount): the weights, or the panic of its assertions.
distribute_weights(amt) ==
    IF amt < 2 \/ amt > 256
    THEN [panic |-> TRUE, weights |-> <<>>]
    ELSE [panic |-> FALSE, weights |-> DistributeLoop(<<1, 1>>, 1, 2, amt)]

\* for add in from..to { added_weights += 1 << add }
RECURSIVE SumShifts(_, _)
SumShifts(from, to) ==
    IF from >= to THEN 0 ELSE 2^from + SumShifts(from + 1, to)

\* The first loop of redistribute_weights: what the weights at from..to add
\* to added_weights (summed by halves).
RECURSIVE RaisedBy(_, _, _, _)
RaisedBy(w, from, to, excess) ==
    IF from > to THEN 0
    ELSE IF from = to
         THEN (IF w[from] < excess THEN SumShifts(w[from], excess) ELSE 0)
    ELSE LET mid == (from + to) \div 2
         IN RaisedBy(w, from, mid, excess) + RaisedBy(w, mid + 1, to, excess)

\* The first loop of redistribute_weights: the weights it leaves.
Raised(w, excess) ==
    [i \in 1..Len(w) |-> IF w[i] < excess THEN w[i] + (excess - w[i]) ELSE w[i]]

\* The first idx in from..to at which the inner for loop of the repaying loop
\* leaves (its break, or the underflow of weights[idx] - 1), to + 1 if none
\* (searched by halves).
RECURSIVE FirstBreak(_, _, _, _)
FirstBreak(w, from, to, added_weights) ==
    IF from > to THEN to + 1
    ELSE IF from = to
         THEN (IF w[from] < 1 \/ 2^(w[from] - 1) > added_weights
               THEN from ELSE to + 1)
    ELSE LET mid == (from + to) \div 2
             left == FirstBreak(w, from, mid, added_weights)
         IN IF left <= mid THEN left
            ELSE FirstBreak(w, mid + 1, to, added_weights)

\* (current_idx, current_weight) after the inner for loop has visited
\* from..to, starting from (from, 0): the first index of the largest weight
\* (searched by halves).
RECURSIVE Largest(_, _, _)
Largest(w, from, to) ==
    IF from > to THEN <<from, 0>>
    ELSE IF from = to
         THEN (IF w[from] > 0 THEN <<from, w[from]>> ELSE <<from, 0>>)
    ELSE LET mid == (from + to) \div 2
             left == Largest(w, from, mid)
             right == Largest(w, mid + 1, to)
         IN IF right[2] > left[2] THEN right ELSE left

\* The inner for loop of the repaying loop: current_idx (counted from 1) and
\* current_weight, or the panic of weights[idx] - 1 below zero.
ScanLargest(w, added_weights) ==
    LET stop == FirstBreak(w, 1, Len(w), added_weights)
        found == Largest(w, 1, stop - 1)
    IN [panic |-> stop <= Len(w) /\ w[stop] < 1,
        current_idx |-> found[1],
        current_weight |-> found[2]]

\* while added_weights > 0 { .. }: the weights, or the panic of an
\* arithmetic overflow (a shift by current_weight - 1 with current_weight 0,
\* added_weights or a weight below zero).
RECURSIVE RepayLoop(_, _)
RepayLoop(w, added_weights) ==
    IF added_weights <= 0 THEN [panic |-> added_weights < 0, weights |-> w]
    ELSE LET found == ScanLargest(w, added_weights)
         IN IF found.panic \/ found.current_weight < 1
               \/ w[found.current_idx] < 1
            THEN [panic |-> TRUE, weights |-> w]
            ELSE RepayLoop([w EXCEPT ![found.current_idx] = @ - 1],
                           added_weights - 2^(found.current_weight - 1))

\* if weights[0] > 1 { subtract weights[0] - 1 from every weight }
SubtractOffset(w) ==
    IF w[1] > 1 THEN [i \in 1..Len(w) |-> w[i] - (w[1] - 1)] ELSE w

\* redistribute_weights(weights, max_weight), on a non-empty sequence.
redistribute_weights(w, ceiling) ==
    LET max_weight_data == w[Len(w)] IN
    IF max_weight_data <= ceiling THEN [panic |-> FALSE, weights |-> w]
    ELSE LET excess == max_weight_data - ceiling
             repaid == RepayLoop(Raised(w, excess), RaisedBy(w, 1, Len(w), excess))
         IN IF repaid.panic THEN repaid
            ELSE [panic |-> FALSE, weights |-> SubtractOffset(repaid.weights)]

\* The ceilings redistribute_weights is called with: amount.ilog2() + 1 by
\* the test `weights`, weights.len().ilog2() + 2 by build_from_counts.
TestCeiling(amt) == ilog2(amt) + 1
CountsCeiling(amt) == ilog2(amt) + 2

WeightInit ==
    /\ amount \in 2..256
    /\ max_weight \in {TestCeiling(amount), CountsCeiling(amount)}
    /\ wts = <<>>
    /\ wpc = "start"

WeightIdle ==
    /\ amount = 0
    /\ max_weight = 0
    /\ wts = <<>>
    /\ wpc = "idle"

\* let mut weights = distribute_weights(amount)
Distribute ==
    /\ wpc = "start"
    /\ LET d == distribute_weights(amount) IN
         /\ wts' = d.weights
         /\ wpc' = IF d.panic THEN "panicked" ELSE "distributed"
    /\ UNCHANGED <<amount, max_weight>>

\* redistribute_weights(&mut weights, max_weight)
Redistribute ==
    /\ wpc = "distributed"
    /\ LET r == redistribute_weights(wts, max_weight) IN
         /\ wts' = r.weights
         /\ wpc' = IF r.panic THEN "panicked" ELSE "redistributed"
    /\ UNCHANGED <<amount, max_weight>>

\* Self::build_from_weights(&weights_distributed) of build_from_counts, on
\* the weights of a counts array whose entries are all nonzero and ascend.
BuildRedistributed ==
    /\ wpc = "redistributed"
    /\ max_weight = CountsCeiling(amount)
    /\ LET t == build_from_weights(wts) IN
         wpc' \in {IF o = "panicked" THEN "internal_error" ELSE o : o \in Outcomes(t)}
    /\ UNCHANGED <<amount, max_weight, wts>>

(***************************************************************************)
(* HuffmanTable::build_from_counts                                         *)
(***************************************************************************)
\* A variant of Reverse that leaves the weights in their order.
NotReversed(w) == w

\* weights.reverse()
Reverse(w) == [i \in 1..Len(w) |-> w[Len(w) - i + 1]]

\* counts.iter().filter(|x| **x == 0).count()
Zeros(c) == Cardinality({i \in 1..Len(c) : c[i] = 0})

\* The place (from 1) of (idx, counts[idx]) in counts_sorted: a stable sort
\* by count puts before it the entries of smaller count and the earlier
\* entries of equal count.
SortedPlace(c, idx) ==
    Cardinality({j \in 1..Len(c) :
                   c[j] < c[idx] \/ (c[j] = c[idx] /\ j < idx)}) + 1

\* The loop over counts_sorted: 0 for a zero count, weights.pop().unwrap()
\* otherwise. The zero counts come first in counts_sorted, so the entry at
\* place p takes the (p - zeros)-th pop, the element at that distance from
\* the end of the stack.
Distributed(c, stack) ==
    [idx \in 1..Len(c) |->
        IF c[idx] = 0 THEN 0
        ELSE stack[Len(stack) - (SortedPlace(c, idx) - Zeros(c)) + 1]]

\* build_from_counts(counts): weights_distributed and the table, or a panic
\* (of distribute_weights' assertions, of arithmetic, of the internal error).
build_from_counts(c) ==
    LET d == distribute_weights(Len(c) - Zeros(c))
        limit == CountsCeiling(Len(d.weights))
        r == redistribute_weights(d.weights, limit)
        weights_distributed == Distributed(c, Reverse(r.weights))
        t == build_from_weights(weights_distributed)
    IN IF d.panic \/ r.panic
       THEN [panic |-> TRUE, overflow |-> FALSE, weights |-> <<>>, codes |-> <<>>]
       ELSE [panic |-> t.panic, overflow |-> t.overflow,
             weights |-> weights_distributed, codes |-> t.codes]

\* The two arrays of the source's test `counts`.
TestCounts == {<<3, 0, 4, 1, 5>>, <<3, 0, 4, 0, 7, 2, 2, 2, 0, 2, 2, 1, 5>>}

\* Numbers of nonzero counts at which redistribute_weights changes the
\* weights.
LongLens == {13, 16, 24}

\* Arrays with that many nonzero counts: ascending, descending, all equal,
\* and with zero counts in between.
LongCounts ==
    UNION {{[i \in 1..n |-> i], [i \in 1..n |-> n + 1 - i],
            [i \in 1..n |-> 1], [i \in 1..(2 * n) |-> (i % 2) * (1 + (i % 3))]}
           : n \in LongLens}

\* An array of more entries than a u8 symbol can name, with two nonzero
\* counts.
WideCounts == {[i \in 1..257 |-> IF i \in {2, 257} THEN 1 ELSE 0]}

CountArrays ==
    UNION {[1..k -> 0..MaxCount] : k \in 0..MaxCountSyms}
        \cup TestCounts \cup LongCounts \cup WideCounts

CountsInit ==
    /\ counts \in CountArrays
    /\ weights = <<>>
    /\ table = <<>>
    /\ hpc = "counts"

\* HuffmanTable::build_from_counts(&counts)
BuildFromCounts ==
    /\ hpc = "counts"
    /\ LET t == build_from_counts(counts) IN
         /\ hpc' \in Outcomes(t)
         /\ weights' = t.weights
         /\ table' = IF hpc' = "built" THEN t.codes ELSE <<>>
    /\ UNCHANGED counts

(***************************************************************************)
(* The specifications.                                                     *)
(***************************************************************************)
Init == FrameInit /\ LevelIdle /\ HuffIdle /\ WeightIdle

Next ==
    \/ Start /\ UNCHANGED <<levelVars, huffVars, weightVars>>
    \/ UncompressedBlock /\ UNCHANGED <<levelVars, huffVars, weightVars>>
    \/ FastestBlock /\ UNCHANGED <<levelVars, huffVars, weightVars>>
    \/ Unimplemented /\ UNCHANGED <<levelVars, huffVars, weightVars>>
    \/ Finish /\ UNCHANGED <<levelVars, huffVars, weightVars>>

Spec == Init /\ [][Next]_vars

LevelSpecInit == FrameIdle /\ LevelInit /\ HuffIdle /\ WeightIdle

LevelNext ==
    \/ TryFromInt /\ UNCHANGED <<frameVars, huffVars, weightVars>>
    \/ OtherLevel /\ UNCHANGED <<frameVars, huffVars, weightVars>>
    \/ NamedLevel /\ UNCHANGED <<frameVars, huffVars, weightVars>>
    \/ NewCompressor /\ UNCHANGED <<frameVars, huffVars, weightVars>>
    \/ Normalize /\ UNCHANGED <<frameVars, huffVars, weightVars>>

LevelSpec == LevelSpecInit /\ [][LevelNext]_vars

HuffSpecInit == FrameIdle /\ LevelIdle /\ HuffInit /\ WeightIdle

HuffNext == BuildFromWeights /\ UNCHANGED <<frameVars, levelVars, weightVars>>

HuffSpec == HuffSpecInit /\ [][HuffNext]_vars

WeightSpecInit == FrameIdle /\ LevelIdle /\ HuffIdle /\ WeightInit

WeightNext ==
    \/ Distribute /\ UNCHANGED <<frameVars, levelVars, huffVars>>
    \/ Redistribute /\ UNCHANGED <<frameVars, levelVars, huffVars>>
    \/ BuildRedistributed /\ UNCHANGED <<frameVars, levelVars, huffVars>>

WeightSpec == WeightSpecInit /\ [][WeightNext]_vars

CountsSpecInit == FrameIdle /\ LevelIdle /\ CountsInit /\ WeightIdle

CountsNext == BuildFromCounts /\ UNCHANGED <<frameVars, levelVars, weightVars>>

CountsSpec == CountsSpecInit /\ [][CountsNext]_vars

(***************************************************************************)
(* Reading a frame back from the sink.                                     *)
(***************************************************************************)
IsPayload(c) == c.k \in {"Bytes", "Compressed"}

BlockHeaderIdx(s) == {i \in 1..Len(s) : s[i].k = "BlockHeader"}

\* The Raw payloads of a frame, concatenated in emission order.
RECURSIVE RawPayloads(_, _)
RawPayloads(s, i) ==
    IF i > Len(s) THEN <<>>
    ELSE (IF s[i].k = "Bytes" THEN s[i].data ELSE <<>>) \o RawPayloads(s, i + 1)

\* The length in bytes of a payload chunk.
PayloadLen(c) == IF c.k = "Bytes" THEN ByteLen(c.data) ELSE c.len

\* The frame header, as the first two chunks of the sink and nowhere else.
FrameHeaderOnce(s) ==
    /\ Len(s) >= 2
    /\ s[1].k = "MAGIC_NUM"
    /\ s[2].k = "FrameHeader"
    /\ \A i \in 3..Len(s) : s[i].k \notin {"MAGIC_NUM", "FrameHeader"}

\* Block j of a frame of a non-empty input: its header and its payload.
HeaderOf(s, j) == s[1 + 2 * j]
PayloadOf(s, j) == s[2 + 2 * j]

(***************************************************************************)
(* C1: at level Uncompressed, a finished compress() has written only Raw   *)
(* blocks, each header declaring the length of the payload that follows    *)
(* it, and the payloads concatenated in emission order are the input.      *)
(***************************************************************************)
C1_RoundTripUncompressed ==
    (pc = "done" /\ compression_level = Uncompressed) =>
        /\ FrameHeaderOnce(compressed_data)
        /\ \A i \in BlockHeaderIdx(compressed_data) :
            /\ compressed_data[i].block_type = "Raw"
            /\ \/ compressed_data[i].block_size = 0
               \/ /\ i < Len(compressed_data)
                  /\ compressed_data[i + 1].k = "Bytes"
                  /\ ByteLen(compressed_data[i + 1].data)
                       = compressed_data[i].block_size
        /\ \A i \in 1..Len(compressed_data) : compressed_data[i].k # "Compressed"
        /\ Norm(RawPayloads(compressed_data, 1)) = Norm(uncompressed_data)

\* An input of three blocks of different bytes has been written at Uncompressed.
C1_Witness ==
    /\ pc = "done"
    /\ compression_level = Uncompressed
    /\ Len(blocks) = 3
    /\ Len(Norm(uncompressed_data)) = 2

(***************************************************************************)
(* C2: for a non-empty input at Uncompressed or Fastest, the sink holds    *)
(* the frame header once, at the start, then the blocks in input order;    *)
(* the blocks cover the input contiguously in slices of 1..MAX_BLOCK_SIZE  *)
(* bytes, every header declares at most MAX_BLOCK_SIZE, and the one header *)
(* with last_block set is the last one.                                    *)
(***************************************************************************)
C2_FrameWellFormed ==
    (pc = "done" /\ DataLen > 0) =>
        LET s == compressed_data
            nb == Len(blocks)
        IN /\ FrameHeaderOnce(s)
           /\ nb >= 1
           /\ Len(s) = 2 + 2 * nb
           /\ \A j \in 1..nb :
                /\ HeaderOf(s, j).k = "BlockHeader"
                /\ IsPayload(PayloadOf(s, j))
                /\ <<HeaderOf(s, j)>> = BlockHeader_serialize(blocks[j].header)
                /\ HeaderOf(s, j).block_size <= MAX_BLOCK_SIZE
                /\ blocks[j].len >= 1
                /\ blocks[j].len <= MAX_BLOCK_SIZE
                /\ blocks[j].index = (IF j = 1 THEN 0
                                      ELSE blocks[j - 1].index + blocks[j - 1].len)
                /\ HeaderOf(s, j).last_block <=> (j = nb)
                /\ PayloadOf(s, j).k = "Bytes" /\ HeaderOf(s, j).block_type = "Raw"
                     => PayloadOf(s, j).data
                          = Slice(uncompressed_data, blocks[j].index, blocks[j].len)
           /\ blocks[nb].index + blocks[nb].len = DataLen

\* An input of exactly two full blocks has been written at Fastest.
C2_Witness ==
    /\ pc = "done"
    /\ compression_level = Fastest
    /\ DataLen = 2 * MAX_BLOCK_SIZE
    /\ Len(blocks) = 2
    /\ compressed_data[5].last_block

(***************************************************************************)
(* C3: for an empty input at Uncompressed or Fastest, the sink holds the   *)
(* frame header and then exactly one block header, with last_block set, of *)
(* type Raw and size 0: no payload, no further block.                      *)
(***************************************************************************)
C3_EmptyInput ==
    (pc = "done" /\ DataLen = 0) =>
        /\ FrameHeaderOnce(compressed_data)
        /\ Len(compressed_data) = 3
        /\ compressed_data[3] = [k |-> "BlockHeader", last_block |-> TRUE,
                                 block_type |-> "Raw", block_size |-> 0]

\* The empty input has been written at Fastest.
C3_Witness ==
    /\ pc = "done"
    /\ uncompressed_data = <<>>
    /\ compression_level = Fastest
    /\ Len(compressed_data) = 3

(***************************************************************************)
(* C4: at Fastest, a block whose bytes all equal its first byte is emitted *)
(* as RLE, with that one byte as payload and the block's length in the     *)
(* header; any other block is emitted as Compressed, the header declaring  *)
(* the compressed length, when that length is below MAX_BLOCK_SIZE, and as *)
(* Raw, with the block's bytes verbatim, when it is not.                   *)
(***************************************************************************)
C4_FastestRepresentation ==
    (compression_level = Fastest /\ pc \in {"match", "done"}) =>
        \A j \in 1..Len(blocks) :
            LET b == blocks[j]
                u == Slice(uncompressed_data, b.index, b.len)
                h == HeaderOf(compressed_data, j)
                p == PayloadOf(compressed_data, j)
            IN /\ h.k = "BlockHeader"
               /\ IF \A i \in 1..Len(u) : u[i].byte = u[1].byte
                  THEN /\ h.block_type = "RLE"
                       /\ h.block_size = b.len
                       /\ p = [k |-> "Bytes", data |-> <<Run(u[1].byte, 1)>>]
                  ELSE IF b.compressed_len < MAX_BLOCK_SIZE
                  THEN /\ h.block_type = "Compressed"
                       /\ h.block_size = b.compressed_len
                       /\ p.k = "Compressed"
                       /\ p.len = b.compressed_len
                       /\ p.of = u
                  ELSE /\ h.block_type = "Raw"
                       /\ h.block_size = b.len
                       /\ p = [k |-> "Bytes", data |-> u]

\* A Fastest frame with an RLE block, a Compressed block and a Raw block
\* that fell back from a compressed length of exactly MAX_BLOCK_SIZE.
C4_Witness ==
    /\ pc = "done"
    /\ compression_level = Fastest
    /\ \E i, j, l \in 1..Len(blocks) :
        /\ blocks[i].header.block_type = "RLE"
        /\ blocks[j].header.block_type = "Compressed"
        /\ blocks[l].header.block_type = "Raw"
        /\ blocks[l].compressed_len = MAX_BLOCK_SIZE

(***************************************************************************)
(* C5: at Fastest, no emitted block payload is larger than the slice of    *)
(* input it stands for: a block whose compressed payload is not smaller    *)
(* than the block is emitted as Raw.                                       *)
(***************************************************************************)
C5_PayloadNeverLarger ==
    (compression_level = Fastest /\ pc \in {"match", "done"}) =>
        \A j \in 1..Len(blocks) :
            /\ PayloadLen(PayloadOf(compressed_data, j)) <= blocks[j].len
            /\ blocks[j].compressed_len >= blocks[j].len
                 => blocks[j].header.block_type # "Compressed"

(***************************************************************************)
(* C6: a compressor whose level is Default, Better, Best or Other(n)       *)
(* never gets past the match on the level: it panics, no block is built    *)
(* by the loops of the implemented arms, and the sink receives no byte.    *)
(***************************************************************************)
C6_UnimplementedFailsLoudly ==
    /\ compression_level \notin {Uncompressed, Fastest} =>
        /\ compressed_data = <<>>
        /\ blocks = <<>>
        /\ matcher = <<>>
        /\ pc \in {"new", "match", "panicked"}
    /\ pc = "panicked" => compression_level \notin {Uncompressed, Fastest}

\* compress() has panicked at a numeric level on a non-empty input, the
\* frame header still in the local buffer.
C6_Witness ==
    /\ pc = "panicked"
    /\ compression_level = Other(5)
    /\ DataLen > 0
    /\ output # <<>>

(***************************************************************************)
(* C7: ZstdLevel::try_from(n) is an error for every n outside 0..22 and    *)
(* is Ok(ZstdLevel(n)) for every n in 0..22: no n out of range becomes a   *)
(* valid level.                                                            *)
(***************************************************************************)
C7_NumericLevelValidated ==
    lv_pc = "converted" =>
        IF lv_n >= 0 /\ lv_n <= 22
        THEN lv_result = Ok(lv_n)
        ELSE lv_result = Err

(***************************************************************************)
(* C8: the level FrameCompressor::new stores is the normalized one:        *)
(* Other(0), Other(1), Other(3), Other(7), Other(11) become Uncompressed,  *)
(* Fastest, Default, Better, Best, every other level is kept, and          *)
(* normalizing the stored level again changes nothing.                     *)
(***************************************************************************)
C8_Normalized ==
    lv_pc \in {"constructed", "normalized"} =>
        /\ lv_level = Other(0) => lv_stored = Uncompressed
        /\ lv_level = Other(1) => lv_stored = Fastest
        /\ lv_level = Other(3) => lv_stored = Default
        /\ lv_level = Other(7) => lv_stored = Better
        /\ lv_level = Other(11) => lv_stored = Best
        /\ lv_level \notin {Other(0), Other(1), Other(3), Other(7), Other(11)}
             => lv_stored = lv_level
        /\ lv_stored \in NamedLevels
             \/ (lv_stored[1] = "Other" /\ lv_stored[2] \notin {0, 1, 3, 7, 11})

\* Other(11), out of try_from(11), was stored as Best and normalized again.
C8_Witness ==
    /\ lv_pc = "normalized"
    /\ lv_n = 11
    /\ lv_level = Other(11)
    /\ lv_stored = Best

(***************************************************************************)
(* C9: build_from_weights ends in the internal-error panic when the sum of *)
(* 2^(weight-1) over the present symbols is not a power of two (the        *)
(* all-zero array included); when the sum is 2^M it returns a table in     *)
(* which every present symbol has the bit-length M - weight + 1, every     *)
(* absent symbol has (0, 0), and the sum over the present symbols of       *)
(* 2^(-bit-length) is exactly 1.                                           *)
(***************************************************************************)
Present == {i \in 1..Len(weights) : weights[i] > 0}

\* The sum of 2^(weights[i] - 1) over the symbols i of S.
RECURSIVE WeightUnits(_)
WeightUnits(S) ==
    IF S = {} THEN 0
    ELSE LET x == CHOOSE y \in S : TRUE
         IN 2^(weights[x] - 1) + WeightUnits(S \ {x})

PresentWeightSum == WeightUnits(Present)

\* The M with PresentWeightSum = 2^M, or -1 when there is none.
KraftExponent ==
    IF \E m \in 0..30 : 2^m = PresentWeightSum
    THEN CHOOSE m \in 0..30 : 2^m = PresentWeightSum
    ELSE -1

\* The sum over the symbols i of S of 2^(-bit-length), times 2^M.
RECURSIVE ScaledKraftSum(_, _)
ScaledKraftSum(S, M) ==
    IF S = {} THEN 0
    ELSE LET x == CHOOSE y \in S : TRUE
         IN 2^(M - table[x][2]) + ScaledKraftSum(S \ {x}, M)

C9_KraftEquality ==
    hpc \in {"panicked", "overflowed", "built"} =>
        IF KraftExponent = -1
        THEN hpc = "panicked"
        ELSE /\ hpc = "built"
             /\ Len(table) = Len(weights)
             /\ \A i \in 1..Len(weights) :
                 IF weights[i] > 0
                 THEN /\ table[i][2] = KraftExponent - weights[i] + 1
                      /\ table[i][2] >= 0
                      /\ table[i][2] <= KraftExponent
                 ELSE table[i] = <<0, 0>>
             /\ ScaledKraftSum(Present, KraftExponent) = 2^KraftExponent

(***************************************************************************)
(* C10: the table build_from_weights returns is a canonical prefix-free    *)
(* code: every present symbol's codeword is below 2^(bit-length), symbols  *)
(* of one weight have consecutive codewords in symbol order, no two        *)
(* present symbols share (codeword, bit-length), and no codeword is a      *)
(* prefix of another; the table of [2,2,2,1,1] is (1,2),(2,2),(3,2),(0,3), *)
(* (1,3).                                                                  *)
(***************************************************************************)
\* Codeword a of la bits is a prefix of codeword b of lb bits.
IsPrefix(a, la, b, lb) == la <= lb /\ b \div 2^(lb - la) = a

C10_CanonicalPrefixFree ==
    hpc = "built" =>
        /\ \A i \in Present : table[i][1] < 2^table[i][2]
        /\ \A i, j \in Present :
            (i < j /\ weights[i] = weights[j]
               /\ ~\E l \in Present : i < l /\ l < j /\ weights[l] = weights[i])
              => table[j][1] = table[i][1] + 1
        /\ \A i, j \in Present :
            i # j => /\ table[i] # table[j]
                     /\ ~IsPrefix(table[i][1], table[i][2],
                                  table[j][1], table[j][2])
        /\ weights = <<2, 2, 2, 1, 1>>
             => table = <<<<1, 2>>, <<2, 2>>, <<3, 2>>, <<0, 3>>, <<1, 3>>>>

(***************************************************************************)
(* C13: at Fastest the one MatchGenerator of a compress() call is handed   *)
(* every block's bytes exactly once and in block order: through            *)
(* add_data_no_matching when the block is emitted as RLE, through          *)
(* compress_block otherwise, the Raw fallback included.                    *)
(***************************************************************************)
\* The bytes the matcher has been fed, in the order it was fed them.
RECURSIVE FedBytes(_)
FedBytes(m) == IF m = <<>> THEN <<>> ELSE Head(m).data \o FedBytes(Tail(m))

C13_MatcherHistory ==
    (compression_level = Fastest /\ pc \in {"match", "done"}) =>
        /\ Len(matcher) = Len(blocks)
        /\ \A j \in 1..Len(blocks) :
            /\ matcher[j].data
                 = Slice(uncompressed_data, blocks[j].index, blocks[j].len)
            /\ matcher[j].op =
                 (IF blocks[j].header.block_type = "RLE"
                  THEN "add_data_no_matching" ELSE "compress_block")
        /\ Norm(FedBytes(matcher)) = Norm(Take(uncompressed_data, index))
        /\ pc = "done" => Norm(FedBytes(matcher)) = Norm(uncompressed_data)

\* A finished Fastest frame of three blocks: one RLE, one Compressed and
\* one Raw that fell back from the compressed path.
C13_Witness ==
    /\ pc = "done"
    /\ compression_level = Fastest
    /\ Len(matcher) = 3
    /\ \E i, j, l \in 1..3 :
        /\ blocks[i].header.block_type = "RLE"
        /\ matcher[i].op = "add_data_no_matching"
        /\ blocks[j].header.block_type = "Compressed"
        /\ blocks[l].header.block_type = "Raw"
        /\ matcher[l].op = "compress_block"

\* weights.iter().copied().map(|weight| 1 << weight).sum::<usize>()
\* (summed by halves)
RECURSIVE ShiftSum(_)
ShiftSum(w) ==
    IF w = <<>> THEN 0
    ELSE IF Len(w) = 1 THEN 2^w[1]
    ELSE LET half == Len(w) \div 2
         IN ShiftSum(SubSeq(w, 1, half)) + ShiftSum(SubSeq(w, half + 1, Len(w)))

NonDecreasing(w) == \A i \in 1..(Len(w) - 1) : w[i] <= w[i + 1]

\* C12: for every amount in 2..256 distribute_weights returns exactly
\* `amount` weights, all at least 1 and non-decreasing, whose sum of
\* 2^weight is a power of two; redistribute_weights returns without a panic
\* and leaves the sum a power of two under both ceilings; under the ceiling
\* ilog2(amount) + 1 the largest weight is at most ilog2(amount) + 3; and
\* build_from_weights on the weights build_from_counts derives never takes
\* its internal-error panic.
C12_KraftPreserved ==
    /\ wpc \notin {"panicked", "internal_error"}
    /\ wpc = "distributed" =>
          /\ Len(wts) = amount
          /\ \A i \in 1..Len(wts) : wts[i] >= 1
          /\ NonDecreasing(wts)
          /\ is_power_of_two(ShiftSum(wts))
    /\ wpc \in {"redistributed", "built"} =>
          /\ Len(wts) = amount
          /\ is_power_of_two(ShiftSum(wts))
          /\ max_weight = TestCeiling(amount) =>
                wts[Len(wts)] <= ilog2(amount) + 3

\* A table was built from weights that redistribute_weights had to change.
C12_Witness ==
    /\ wpc = "built"
    /\ wts # distribute_weights(amount).weights
    /\ is_power_of_two(ShiftSum(wts))

\* C14: after redistribute_weights has run on distribute_weights(amount)
\* with the ceiling build_from_counts passes, ilog2(amount) + 2, no weight
\* exceeds the ceiling, the smallest weight is 1 and the sequence is
\* non-decreasing.
C14_WeightCeiling ==
    (wpc \in {"redistributed", "built"} /\ max_weight = CountsCeiling(amount)) =>
        /\ \A i \in 1..Len(wts) : wts[i] <= max_weight
        /\ \A i \in 1..Len(wts) : wts[i] >= 1
        /\ \E i \in 1..Len(wts) : wts[i] = 1
        /\ NonDecreasing(wts)

NonzeroCounts == {i \in 1..Len(counts) : counts[i] # 0}

BitLength(i) == table[i][2]

\* C11 as first stated: for every counts array with between 2 and 256
\* nonzero entries build_from_counts returns a table in which a symbol of
\* count 0 has bit-length 0, a symbol of nonzero count has a bit-length
\* above 0, and for every pair a, b with 0 < count[a] <= count[b] the
\* bit-length of a is at least the bit-length of b.
C11_RankOrderAllPairs ==
    (hpc # "counts" /\ Cardinality(NonzeroCounts) \in 2..256) =>
        /\ hpc = "built"
        /\ \A i \in 1..Len(counts) : counts[i] = 0 => BitLength(i) = 0
        /\ \A i \in NonzeroCounts : BitLength(i) > 0
        /\ \A a, b \in NonzeroCounts :
              counts[a] <= counts[b] => BitLength(a) >= BitLength(b)

\* C11, amended: for every counts array of at most 256 entries with at
\* least 2 nonzero entries build_from_counts returns a table in which a
\* symbol of count 0 has bit-length 0, a symbol of nonzero count has a
\* bit-length above 0, and for every pair a, b of symbols of nonzero count
\* with count[a] < count[b], or count[a] = count[b] and a before b, the
\* bit-length of a is at least the bit-length of b.
C11_RankOrder ==
    (hpc # "counts" /\ Len(counts) <= 256 /\ Cardinality(NonzeroCounts) >= 2) =>
        /\ hpc = "built"
        /\ \A i \in 1..Len(counts) : counts[i] = 0 => BitLength(i) = 0
        /\ \A i \in NonzeroCounts : BitLength(i) > 0
        /\ \A a, b \in NonzeroCounts :
              (counts[a] < counts[b] \/ (counts[a] = counts[b] /\ a < b))
                 => BitLength(a) >= BitLength(b)

\* A table built from counts with an absent symbol, a strictly more frequent
\* symbol with a strictly shorter code, and two symbols of equal count of
\* which the earlier has the strictly longer code.
C11_Witness ==
    /\ hpc = "built"
    /\ Len(counts) <= 256
    /\ \E i \in 1..Len(counts) : counts[i] = 0 /\ BitLength(i) = 0
    /\ \E a, b \in NonzeroCounts :
          counts[a] < counts[b] /\ BitLength(a) > BitLength(b)
    /\ \E a, b \in NonzeroCounts :
          a < b /\ counts[a] = counts[b] /\ BitLength(a) > BitLength(b)

====
